---- MODULE Spec2Model ----
(***************************************************************************)
(* Model of koyeb.py: one run of main().  The run reads KOYEB_ACCOUNTS,    *)
(* checks every account that has a token with one HTTP GET, collects one   *)
(* result entry per account and hands one message to send_tg_message.      *)
(*                                                                         *)
(* Text is modelled as a sequence of string pieces (concatenation is \o);  *)
(* the source's non-ASCII literals are rendered by ASCII pieces that keep  *)
(* their meaning.  A token is a sequence of one-character strings so that  *)
(* str.strip() is computed, not assumed.                                   *)
(***************************************************************************)
EXTENDS Naturals, Sequences, FiniteSets

VARIABLES
    env_accounts,   \* os.environ["KOYEB_ACCOUNTS"]: [state, value]
    tg_bot_token,   \* os.environ["TG_BOT_TOKEN"]: <<>> unset, <<s>> set to s
    tg_chat_id,     \* os.environ["TG_CHAT_ID"]:   <<>> unset, <<s>> set to s
    pc,             \* position of main(): "start", "for", "except", "done"
    koyeb_accounts, \* main's local: the parsed value
    idx,            \* position of the for loop's iterator (1-based)
    messages,       \* main's local list of result entries
    fault,          \* the exception being handled (its str()), <<>> when none
    trace,          \* outbound effects in order: GET, SLEEP, POST events
    calls,          \* the messages main handed to send_tg_message, in order
    escaped         \* TRUE when an exception propagated out of main()

vars == <<env_accounts, tg_bot_token, tg_chat_id, pc, koyeb_accounts, idx,
          messages, fault, trace, calls, escaped>>

(***************************************************************************)
(* Bounds of the model.                                                    *)
(***************************************************************************)
MaxAccounts == 2
MaxLongAccounts == 3

(***************************************************************************)
(* Program constants.                                                      *)
(***************************************************************************)
SleepSeconds == 5
TimeoutSeconds == 30

\* The characters str.strip() removes (those for which str.isspace() holds).
\* A character that has no escape here is written by its code point, which
\* stands for that one character.
WhitespaceChars ==
    { " ", "\t", "\n", "\r", "\f", "U+000B", "U+001C", "U+001D", "U+001E", "U+001F",
      "U+0085", "U+00A0", "U+1680", "U+2000", "U+2001", "U+2002", "U+2003",
      "U+2004", "U+2005", "U+2006", "U+2007", "U+2008", "U+2009", "U+200A",
      "U+2028", "U+2029", "U+202F", "U+205F", "U+3000" }

IsSpace(c) == c \in WhitespaceChars

\* ------------------------------------------------------------ str.strip()
RECURSIVE LStrip(_)
LStrip(s) == IF s # <<>> /\ IsSpace(Head(s)) THEN LStrip(Tail(s)) ELSE s

RECURSIVE RStrip(_)
RStrip(s) ==
    IF s # <<>> /\ IsSpace(s[Len(s)]) THEN RStrip(SubSeq(s, 1, Len(s) - 1)) ELSE s

Strip(s) == RStrip(LStrip(s))

\* ------------------------------------------------------------ JSON values
JNull == [type |-> "null", items |-> <<>>, n |-> 0]
JNumber(k) == [type |-> "number", items |-> <<>>, n |-> k]
JArray(xs) == [type |-> "array", items |-> xs, n |-> 0]

\* Values of an account's "token" key: a string (its characters) or null.
TStr(chars) == [t |-> "str", s |-> chars]
TNull == [t |-> "null", s |-> <<>>]

TokenChars ==
    { <<>>, <<" ", "\t", "U+00A0">>, <<"k">>, <<"\n", " ", "k", "\r", "\n">> }

\* <<>> is "key absent", <<v>> is "key present with value v".
TokenFields == { <<>> } \cup { <<TStr(c)>> : c \in TokenChars } \cup { <<TNull>> }
\* The name/email keys of an account: name given, only email given, neither.
NameEmailFields == { <<<<"a">>, <<>>>>, <<<<"">>, <<"e">>>>, <<<<>>, <<>>>> }

JObject(nm, em, tk) == [type |-> "object", name |-> nm, email |-> em, token |-> tk]
JString == [type |-> "string", name |-> <<>>, email |-> <<>>, token |-> <<>>]

Elements ==
    { JObject(ne[1], ne[2], tk) : ne \in NameEmailFields, tk \in TokenFields }
    \cup { JString }

RECURSIVE SeqsUpTo(_, _)
SeqsUpTo(S, k) ==
    IF k = 0 THEN { <<>> }
    ELSE LET shorter == SeqsUpTo(S, k - 1)
         IN  shorter \cup { Append(q, x) : q \in { r \in shorter : Len(r) = k - 1 }, x \in S }

JsonValues ==
    { JArray(xs) : xs \in SeqsUpTo(Elements, MaxAccounts) }
    \cup { JNull, JNumber(0), JNumber(5) }

\* Python truthiness of a parsed JSON value (`not koyeb_accounts`).
Truthy(v) ==
    CASE v.type = "null" -> FALSE
      [] v.type = "number" -> v.n # 0
      [] v.type = "array" -> v.items # <<>>
      [] OTHER -> TRUE

\* The environment variable: unset, "", or a text.  json.loads rejects a text
\* with JSONDecodeError ("invalid"), with a plain ValueError (an integer of
\* more digits than int() converts, "digits") or with RecursionError (arrays
\* nested deeper than the interpreter recurses, "nesting"), or parses it ("json").
EnvAccountsValues ==
    { [state |-> s, value |-> JNull] :
          s \in {"unset", "empty", "invalid", "digits", "nesting"} }
    \cup { [state |-> "json", value |-> v] : v \in JsonValues }

\* TG_BOT_TOKEN / TG_CHAT_ID: unset, set to "", set to a value.
BotTokenValues == { <<>>, <<"">>, <<"bot">> }
ChatIdValues == { <<>>, <<"chat">> }

\* ------------------------------------------------------------ messages
MsgEnvMissing == <<"KOYEB_ACCOUNTS env var not set or malformed">>
MsgEnvInvalidJson == <<"KOYEB_ACCOUNTS JSON invalid">>
MsgJsonDecode == <<"Expecting value: line 1 column 1 (char 0)">>
MsgIntDigits == <<"Exceeds the limit (4300 digits) for integer string conversion">>
MsgRecursion == <<"maximum recursion depth exceeded while decoding a JSON array">>
MsgNoAccounts == <<"no valid Koyeb account information found">>
MsgNoGet == <<"'str' object has no attribute 'get'">>
MsgNoStrip == <<"'NoneType' object has no attribute 'strip'">>
MsgNotIterable == <<"'int' object is not iterable">>
MsgEncode == <<"'latin-1' codec can't encode characters">>
MsgEncodeBody == <<"'utf-8' codec can't encode character: surrogates not allowed">>
CheckUrl == "https://app.koyeb.com/v1/apps"
DefaultName == "unnamed account"
CurrentTime == "YYYY-MM-DD HH:MM"

\* ------------------------------------------------------------ HTTP
\* What one requests.get / requests.post call can meet: a final response with
\* a status code, a timeout, another transport fault (both RequestException),
\* or an exception raised while the request is prepared that is no
\* RequestException: UnicodeEncodeError, for the GET when latin-1 cannot encode
\* the token in the Authorization header, for the POST when utf-8 cannot encode
\* the form body (a lone surrogate in the text or in the chat id).
Statuses == { 200, 304, 401, 500 }
Response(s) == [kind |-> "response", status |-> s]
TimedOut == [kind |-> "timeout", status |-> 0]
ConnectionFailed == [kind |-> "connection", status |-> 0]
EncodeFailed == [kind |-> "encode", status |-> 0]

GetOutcomes ==
    { Response(s) : s \in Statuses } \cup { TimedOut, ConnectionFailed, EncodeFailed }
PostOutcomes == GetOutcomes

StatusText(s) ==
    CASE s = 200 -> "200" [] s = 304 -> "304" [] s = 401 -> "401"
      [] s = 500 -> "500" [] OTHER -> "???"

NoException == <<>>
Exception(cls, text) == << [cls |-> cls, text |-> text] >>

\* requests' exception hierarchy, as far as the except clauses test it.
IsTimeout(cls) == cls \in { "Timeout" }
IsRequestException(cls) == cls \in { "HTTPError", "Timeout", "ConnectionError" }

\* Response.raise_for_status(): HTTPError for 400..599, nothing otherwise.
raise_for_status(s, url) ==
    IF 400 <= s /\ s < 500
    THEN Exception("HTTPError", <<StatusText(s), " Client Error", " for url: ", url>>)
    ELSE IF 500 <= s /\ s < 600
    THEN Exception("HTTPError", <<StatusText(s), " Server Error", " for url: ", url>>)
    ELSE NoException

\* requests.get/post followed by raise_for_status(): the exception raised, if any.
Request(url, outcome, encode_message) ==
    CASE outcome.kind = "response" -> raise_for_status(outcome.status, url)
      [] outcome.kind = "timeout" ->
            Exception("Timeout", <<"Read timed out. (read timeout=30)">>)
      [] outcome.kind = "connection" ->
            Exception("ConnectionError", <<"Connection aborted.">>)
      [] OTHER -> Exception("UnicodeEncodeError", encode_message)

\* ------------------------------------------------------------ events
GetEvent(acct, token, outcome) ==
    [op |-> "GET", url |-> CheckUrl, acct |-> acct, bearer |-> token,
     timeout |-> TimeoutSeconds, outcome |-> outcome]
SleepEvent(secs) == [op |-> "SLEEP", secs |-> secs]
PostEvent(text, outcome) ==
    [op |-> "POST", text |-> text, timeout |-> TimeoutSeconds, outcome |-> outcome]

\* ------------------------------------------------------------ validate_env_variables
\* Faulty variant: a missing or unparseable value is returned as null instead of raising.
validate_env_variables_lenient(e) ==
    [raised |-> NoException, value |-> IF e.state = "json" THEN e.value ELSE JNull]

\* json.loads(koyeb_accounts_env): the value, or the exception it raises.
json_loads(e) ==
    CASE e.state = "invalid" ->
            [raised |-> Exception("JSONDecodeError", MsgJsonDecode), value |-> JNull]
      [] e.state = "digits" ->
            [raised |-> Exception("ValueError", MsgIntDigits), value |-> JNull]
      [] e.state = "nesting" ->
            [raised |-> Exception("RecursionError", MsgRecursion), value |-> JNull]
      [] OTHER -> [raised |-> NoException, value |-> e.value]

\* `except json.JSONDecodeError`
IsJSONDecodeError(cls) == cls = "JSONDecodeError"

validate_env_variables(e) ==
    IF e.state \in { "unset", "empty" }
    THEN [raised |-> Exception("ValueError", MsgEnvMissing), value |-> JNull]
    ELSE LET r == json_loads(e)
         IN  IF r.raised # NoException /\ IsJSONDecodeError(r.raised[1].cls)
             THEN [raised |-> Exception("ValueError", MsgEnvInvalidJson), value |-> JNull]
             ELSE r

\* ------------------------------------------------------------ send_tg_message
\* Faulty variant: only an unset variable counts as missing (`is None`).
EnvFalsyUnsetOnly(v) == v = <<>>

\* `not os.getenv(X)`: unset or the empty string.
EnvFalsy(v) == v = <<>> \/ v[1] = ""

\* Faulty variant: `and` in place of `or`: the POST is skipped only if both are missing.
send_tg_message_and(bot_token, chat_id, message, outcome) ==
    IF EnvFalsy(bot_token) /\ EnvFalsy(chat_id)
    THEN [events |-> <<>>, raised |-> NoException]
    ELSE [events |-> << PostEvent(message, outcome) >>, raised |-> NoException]

\* The result of send_tg_message(message) when its POST, if issued, meets
\* `outcome`: the events it caused and the exception it let out, if any.
send_tg_message(bot_token, chat_id, message, outcome) ==
    IF EnvFalsy(bot_token) \/ EnvFalsy(chat_id)
    THEN [events |-> <<>>, raised |-> NoException]
    ELSE LET exc == Request("https://api.telegram.org/bot<token>/sendMessage", outcome,
                            MsgEncodeBody)
         IN  [events |-> << PostEvent(message, outcome) >>,
              raised |-> IF exc # NoException /\ ~IsRequestException(exc[1].cls)
                         THEN exc ELSE NoException]

\* ------------------------------------------------------------ check_koyeb_with_token
MsgTokenEmpty == <<"Token is empty">>
MsgTokenOk == <<"Token check succeeded">>
MsgTimeout == <<"request timed out">>

\* Faulty variant: a request that fails is tried a second time.
check_koyeb_with_token_retry(acct, token, outcome) ==
    LET exc == Request(CheckUrl, outcome, MsgEncode)
        ev == << GetEvent(acct, token, outcome) >>
    IN  IF token = <<>>
        THEN [events |-> <<>>, raised |-> NoException,
              success |-> FALSE, message |-> MsgTokenEmpty]
        ELSE IF exc = NoException
        THEN [events |-> ev, raised |-> NoException,
              success |-> TRUE, message |-> MsgTokenOk]
        ELSE [events |-> ev \o ev, raised |-> NoException,
              success |-> FALSE, message |-> exc[1].text]

check_koyeb_with_token(acct, token, outcome) ==
    IF token = <<>>
    THEN [events |-> <<>>, raised |-> NoException,
          success |-> FALSE, message |-> MsgTokenEmpty]
    ELSE LET exc == Request(CheckUrl, outcome, MsgEncode)
             ev == << GetEvent(acct, token, outcome) >>
         IN  IF exc = NoException
             THEN [events |-> ev, raised |-> NoException,
                   success |-> TRUE, message |-> MsgTokenOk]
             ELSE IF IsTimeout(exc[1].cls)
             THEN [events |-> ev, raised |-> NoException,
                   success |-> FALSE, message |-> MsgTimeout]
             ELSE IF IsRequestException(exc[1].cls)
             THEN [events |-> ev, raised |-> NoException,
                   success |-> FALSE, message |-> exc[1].text]
             ELSE [events |-> ev, raised |-> exc,
                   success |-> FALSE, message |-> <<>>]

\* ------------------------------------------------------------ main: formatting
\* account.get("name") or account.get("email") or <default>
DisplayName(account) ==
    IF account.name # <<>> /\ account.name[1] # "" THEN account.name[1]
    ELSE IF account.email # <<>> /\ account.email[1] # "" THEN account.email[1]
    ELSE DefaultName

\* account.get("token", "")
TokenOf(account) == IF account.token = <<>> THEN TStr(<<>>) ELSE account.token[1]

SkippedEntry(name) == <<"[warn] account: ", name, "\nToken not configured, skipped">>
SuccessEntry(name) == <<"[ok] account: ", name, " Token check succeeded">>
FailureEntry(name, message) ==
    <<"[fail] account: ", name, " Token check failed | reason: ">> \o message

\* "\n".join(messages)
RECURSIVE Join(_)
Join(ms) ==
    IF ms = <<>> THEN <<>>
    ELSE IF Len(ms) = 1 THEN ms[1]
    ELSE ms[1] \o <<"\n">> \o Join(Tail(ms))

SummaryHeader == <<"[time] Beijing time: ", CurrentTime, "\n\n">>
SummaryFooter == <<"\n\n[ok] task finished">>
Summary(ms) == SummaryHeader \o Join(ms) \o SummaryFooter

ErrorPrefix == "[error] script failed: "
ErrorMessage(exc) == <<ErrorPrefix>> \o exc[1].text

\* ------------------------------------------------------------ main: steps
\* Faulty variant: the `if not token` branch of main is missing.
NeverSkipped(token) == FALSE

\* `if not token` (after .strip()): the account is skipped.
IsSkipped(token) == token = <<>>

\* Faulty variant: messages.insert(0, ...).
PrependResult(ms, entry) == <<entry>> \o ms

\* messages.append(...)
AppendResult(ms, entry) == Append(ms, entry)

\* Faulty variant: the pause sits in the success branch.
SleepAfterSuccess(success) == IF success THEN << SleepEvent(SleepSeconds) >> ELSE <<>>

\* time.sleep(5) at the end of every iteration that made a check.
SleepAfterCheck(success) == << SleepEvent(SleepSeconds) >>

Accounts == koyeb_accounts.items
Account == Accounts[idx]
InLoop == pc = "for" /\ koyeb_accounts.type = "array" /\ idx <= Len(Accounts)
WellFormed(account) == account.type = "object" /\ TokenOf(account).t = "str"

Raise(exc) ==
    /\ pc' = "except"
    /\ fault' = exc

Init ==
    /\ env_accounts \in EnvAccountsValues
    /\ tg_bot_token \in BotTokenValues
    /\ tg_chat_id \in ChatIdValues
    /\ pc = "start"
    /\ koyeb_accounts = JNull
    /\ idx = 1
    /\ messages = <<>>
    /\ fault = NoException
    /\ trace = <<>>
    /\ calls = <<>>
    /\ escaped = FALSE

\* Lines 94-100: load the accounts, reject an empty value, start the loop.
Load ==
    /\ pc = "start"
    /\ LET r == validate_env_variables(env_accounts)
       IN  IF r.raised # NoException
           THEN Raise(r.raised) /\ UNCHANGED koyeb_accounts
           ELSE /\ koyeb_accounts' = r.value
                /\ IF ~Truthy(r.value)
                   THEN Raise(Exception("ValueError", MsgNoAccounts))
                   ELSE pc' = "for" /\ UNCHANGED fault
    /\ UNCHANGED <<env_accounts, tg_bot_token, tg_chat_id, idx, messages,
                   trace, calls, escaped>>

\* Line 102 on a value that cannot be iterated (a JSON number).
ForNotIterable ==
    /\ pc = "for"
    /\ koyeb_accounts.type # "array"
    /\ Raise(Exception("TypeError", MsgNotIterable))
    /\ UNCHANGED <<env_accounts, tg_bot_token, tg_chat_id, koyeb_accounts, idx,
                   messages, trace, calls, escaped>>

\* Faulty variant: the fault of one element is recorded as a failed entry and the
\* loop goes on (a try/except inside the loop body).
ForFaultContinue ==
    /\ InLoop
    /\ ~WellFormed(Account)
    /\ messages' = AppendResult(messages, FailureEntry(DefaultName,
                       IF Account.type # "object" THEN MsgNoGet ELSE MsgNoStrip))
    /\ idx' = idx + 1
    /\ UNCHANGED <<env_accounts, tg_bot_token, tg_chat_id, pc, koyeb_accounts,
                   fault, trace, calls, escaped>>

\* Lines 103-104 on an element that is no dict, or whose token is no string.
ForFault ==
    /\ InLoop
    /\ ~WellFormed(Account)
    /\ Raise(Exception("AttributeError",
                       IF Account.type # "object" THEN MsgNoGet ELSE MsgNoStrip))
    /\ UNCHANGED <<env_accounts, tg_bot_token, tg_chat_id, koyeb_accounts, idx,
                   messages, trace, calls, escaped>>

\* Lines 103-109: an account whose stripped token is empty.
ForSkip ==
    /\ InLoop
    /\ WellFormed(Account)
    /\ IsSkipped(Strip(TokenOf(Account).s))
    /\ messages' = AppendResult(messages, SkippedEntry(DisplayName(Account)))
    /\ idx' = idx + 1
    /\ UNCHANGED <<env_accounts, tg_bot_token, tg_chat_id, pc, koyeb_accounts,
                   fault, trace, calls, escaped>>

\* Lines 103-122: an account with a token: one check, one entry, one pause.
ForCheck ==
    /\ InLoop
    /\ WellFormed(Account)
    /\ ~IsSkipped(Strip(TokenOf(Account).s))
    /\ \E outcome \in GetOutcomes :
          LET name == DisplayName(Account)
              r == check_koyeb_with_token(idx, Strip(TokenOf(Account).s), outcome)
          IN  IF r.raised # NoException
              THEN /\ Raise(r.raised)
                   /\ trace' = trace \o r.events
                   /\ UNCHANGED <<messages, idx>>
              ELSE /\ messages' = AppendResult(messages,
                                     IF r.success THEN SuccessEntry(name)
                                     ELSE FailureEntry(name, r.message))
                   /\ trace' = trace \o r.events \o SleepAfterCheck(r.success)
                   /\ idx' = idx + 1
                   /\ UNCHANGED <<pc, fault>>
    /\ UNCHANGED <<env_accounts, tg_bot_token, tg_chat_id, koyeb_accounts,
                   calls, escaped>>

\* Lines 124-126: the loop is over: build the summary and send it.
Finish ==
    /\ pc = "for"
    /\ koyeb_accounts.type = "array"
    /\ idx > Len(Accounts)
    /\ \E outcome \in PostOutcomes :
          LET summary == Summary(messages)
              r == send_tg_message(tg_bot_token, tg_chat_id, summary, outcome)
          IN  /\ calls' = Append(calls, summary)
              /\ trace' = trace \o r.events
              /\ IF r.raised # NoException
                 THEN Raise(r.raised)
                 ELSE pc' = "done" /\ UNCHANGED fault
    /\ UNCHANGED <<env_accounts, tg_bot_token, tg_chat_id, koyeb_accounts, idx,
                   messages, escaped>>

\* Lines 128-131: the handler: send the error line; what it raises leaves main.
Except ==
    /\ pc = "except"
    /\ \E outcome \in PostOutcomes :
          LET error_message == ErrorMessage(fault)
              r == send_tg_message(tg_bot_token, tg_chat_id, error_message, outcome)
          IN  /\ calls' = Append(calls, error_message)
              /\ trace' = trace \o r.events
              /\ escaped' = (r.raised # NoException)
    /\ pc' = "done"
    /\ UNCHANGED <<env_accounts, tg_bot_token, tg_chat_id, koyeb_accounts, idx,
                   messages, fault>>

Next ==
    \/ Load
    \/ ForNotIterable
    \/ ForFault
    \/ ForSkip
    \/ ForCheck
    \/ Finish
    \/ Except

Spec == Init /\ [][Next]_vars

\* Longer account lists over fewer kinds of element: an account with a token,
\* an account with an empty token, an element that is no account object.
LongElements ==
    { JObject(<<"a">>, <<>>, <<TStr(<<"k">>)>>),
      JObject(<<"b">>, <<>>, <<TStr(<<>>)>>),
      JString }

LongEnvAccountsValues ==
    { [state |-> "json", value |-> JArray(xs)] :
          xs \in SeqsUpTo(LongElements, MaxLongAccounts) }
    \cup { [state |-> "json", value |-> JNumber(5)],
           [state |-> "unset", value |-> JNull] }

InitLong ==
    /\ env_accounts \in LongEnvAccountsValues
    /\ tg_bot_token = <<"bot">>
    /\ tg_chat_id \in ChatIdValues
    /\ pc = "start"
    /\ koyeb_accounts = JNull
    /\ idx = 1
    /\ messages = <<>>
    /\ fault = NoException
    /\ trace = <<>>
    /\ calls = <<>>
    /\ escaped = FALSE

SpecLong == InitLong /\ [][Next]_vars

\* ------------------------------------------------------------ vocabulary of the properties
Done == pc = "done"
Positions(op) == { p \in DOMAIN trace : trace[p].op = op }
GetsOf(i) == { p \in Positions("GET") : trace[p].acct = i }
NoGets == Positions("GET") = {}

\* The input list, read from the environment rather than from main's local.
InputIsList == env_accounts.state = "json" /\ env_accounts.value.type = "array"
Input == env_accounts.value.items

IsObject(a) == a.type = "object"
HasStringToken(a) == a.token = <<>> \/ a.token[1].t = "str"
TokenText(a) == IF a.token = <<>> THEN <<>> ELSE a.token[1].s
\* An empty token: key absent, "", or nothing but whitespace.
BlankToken(a) == \A k \in DOMAIN TokenText(a) : TokenText(a)[k] \in WhitespaceChars
ValidAccount(a) == IsObject(a) /\ HasStringToken(a)
ValidList == InputIsList /\ Input # <<>> /\ \A i \in DOMAIN Input : ValidAccount(Input[i])

\* The label an entry shows for an account: name, else email, else the default.
Label(a) ==
    IF a.name # <<>> /\ a.name[1] # "" THEN a.name[1]
    ELSE IF a.email # <<>> /\ a.email[1] # "" THEN a.email[1]
    ELSE "unnamed account"

WarnMark == "[warn] account: "
OkMark == "[ok] account: "
FailMark == "[fail] account: "
Marks == { WarnMark, OkMark, FailMark }

\* The result entries a text shows, in order, each as <<mark, label>>.
EntryHeads(text) ==
    LET at == SelectSeq([p \in 1 .. Len(text) |-> p], LAMBDA p : text[p] \in Marks)
    IN  [k \in 1 .. Len(at) |-> << text[at[k]],
                                   IF at[k] < Len(text) THEN text[at[k] + 1] ELSE "" >>]

IsSummary(text) == text # <<>> /\ text[1] = "[time] Beijing time: "
IsErrorLine(text) == Len(text) = 2 /\ text[1] = "[error] script failed: "

Is2xx(o) == o.kind = "response" /\ o.status >= 200 /\ o.status <= 299
Is4xx5xx(o) == o.kind = "response" /\ o.status >= 400 /\ o.status <= 599
\* Outcomes the checker is specified for: a response, a timeout, a network fault.
RequestOutcome(o) == o.kind \in { "response", "timeout", "connection" }

CredentialsPresent ==
    /\ tg_bot_token # <<>> /\ tg_bot_token[1] # ""
    /\ tg_chat_id # <<>> /\ tg_chat_id[1] # ""

\* ------------------------------------------------------------ C1
\* C1 as stated: when main() has ended, exactly one notification has been
\* delivered to the operator (one POST that the notification API accepted).
C1_ExactlyOneDelivered ==
    Done => Cardinality({ p \in Positions("POST") : Is2xx(trace[p].outcome) }) = 1

Delivered == { p \in Positions("POST") : Is2xx(trace[p].outcome) }

\* C1 amended: in every run at most one notification is delivered to the
\* operator, the summary or a single error line, and it ends the run; none is
\* delivered when TG_BOT_TOKEN or TG_CHAT_ID is unset or empty (no POST is
\* issued then) or when the notification request fails.  main() hands the
\* summary and the error line to send_tg_message at most once each; a
\* finished run has handed over a message and, with both credentials set,
\* has attempted a POST.
C1_AtMostOneDelivered ==
    /\ Cardinality(Delivered) <= 1
    /\ ~CredentialsPresent => Positions("POST") = {}
    /\ \A p \in Delivered :
          /\ IsSummary(trace[p].text) \/ IsErrorLine(trace[p].text)
          /\ p = Len(trace)
          /\ Done
    /\ Cardinality({ c \in DOMAIN calls : IsSummary(calls[c]) }) <= 1
    /\ Cardinality({ c \in DOMAIN calls : IsErrorLine(calls[c]) }) <= 1
    /\ \A p \in Positions("POST") : \E c \in DOMAIN calls : trace[p].text = calls[c]
    /\ Done =>
          /\ calls # <<>>
          /\ CredentialsPresent => Positions("POST") # {}

C1_Witness ==
    /\ Done
    /\ CredentialsPresent
    /\ \E p \in Positions("POST") : Is2xx(trace[p].outcome) /\ IsSummary(trace[p].text)

\* ------------------------------------------------------------ C2
\* The outcome of account i as the trace shows it.
OutcomeMark(i) ==
    IF GetsOf(i) = {} THEN WarnMark
    ELSE IF \E p \in GetsOf(i) : Is4xx5xx(trace[p].outcome)
                                 \/ trace[p].outcome.kind # "response"
    THEN FailMark
    ELSE OkMark

AllChecksAnswered == \A p \in Positions("GET") : RequestOutcome(trace[p].outcome)

\* C2: for a non-empty valid account list whose checks all end in success,
\* failure or skip, main() sends a summary, and the summary shows exactly one
\* result entry per input account, the i-th entry carrying the label and the
\* outcome of the i-th account.
C2_OneEntryPerAccountInOrder ==
    /\ (Done /\ ValidList /\ AllChecksAnswered) => (calls # <<>> /\ IsSummary(calls[1]))
    /\ \A c \in DOMAIN calls :
          IsSummary(calls[c]) =>
             LET heads == EntryHeads(calls[c])
             IN  /\ ValidList
                 /\ Len(heads) = Len(Input)
                 /\ \A i \in DOMAIN Input :
                       heads[i] = << OutcomeMark(i), Label(Input[i]) >>

C2_Witness ==
    /\ Done
    /\ calls # <<>> /\ IsSummary(calls[1])
    /\ Len(Input) = 2
    /\ EntryHeads(calls[1])[1][1] = FailMark
    /\ EntryHeads(calls[1])[2] = << WarnMark, "e" >>

\* ------------------------------------------------------------ C3
\* C3: every account with an empty token (key absent, "" or blanks only) that
\* the loop has passed has the "not configured, skipped" entry at its position
\* and no GET; the loop never aborts at such an account, it moves on.
C3_EmptyTokenSkippedWithoutGet ==
    InputIsList =>
      \A i \in DOMAIN Input :
         (ValidAccount(Input[i]) /\ BlankToken(Input[i])) =>
            /\ GetsOf(i) = {}
            /\ ~(pc = "except" /\ koyeb_accounts.type = "array" /\ idx = i)
            /\ (pc \in {"for", "except", "done"} /\ koyeb_accounts.type = "array" /\ i < idx) =>
                  /\ Len(messages) >= i
                  /\ messages[i] =
                        << "[warn] account: ", Label(Input[i]), "\nToken not configured, skipped" >>

C3_Witness ==
    /\ pc = "for"
    /\ idx = 2
    /\ Len(Input) = 2
    /\ Input[1].token = << TStr(<<>>) >>
    /\ messages = << << "[warn] account: ", "a", "\nToken not configured, skipped" >> >>
    /\ trace = <<>>

\* ------------------------------------------------------------ C4
ConfigFault == env_accounts.state \in { "unset", "empty", "invalid", "digits", "nesting" }
\* The description of the fault: the loader's own text for a missing value
\* and for a JSON syntax error, json.loads' text for what it rejects otherwise.
ConfigFaultText ==
    CASE env_accounts.state = "invalid" -> "KOYEB_ACCOUNTS JSON invalid"
      [] env_accounts.state = "digits" ->
            "Exceeds the limit (4300 digits) for integer string conversion"
      [] env_accounts.state = "nesting" ->
            "maximum recursion depth exceeded while decoding a JSON array"
      [] OTHER -> "KOYEB_ACCOUNTS env var not set or malformed"

\* C4: when KOYEB_ACCOUNTS is unset, empty or not JSON, no GET is ever issued,
\* and the one message main() sends is the error line describing that fault,
\* not a summary; a POST, if the credentials allow one, carries that line.
C4_ConfigFaultOneErrorNoChecks ==
    ConfigFault =>
       /\ NoGets
       /\ Positions("SLEEP") = {}
       /\ Done =>
            /\ calls = << << "[error] script failed: ", ConfigFaultText >> >>
            /\ Cardinality(Positions("POST")) = IF CredentialsPresent THEN 1 ELSE 0
            /\ \A p \in Positions("POST") : trace[p].text = calls[1]

C4_Witness ==
    /\ Done
    /\ env_accounts.state = "invalid"
    /\ \E p \in Positions("POST") :
          trace[p].text = << "[error] script failed: ", "KOYEB_ACCOUNTS JSON invalid" >>

\* ------------------------------------------------------------ C5
\* The classification of the GET of account i, read off entry i.
Classified(i, p, exclusive) ==
    LET o == trace[p].outcome
        e == messages[i]
        failed(detail) == << "[fail] account: ", Label(Input[i]),
                             " Token check failed | reason: " >> \o detail
    IN  /\ Is2xx(o) => e = << "[ok] account: ", Label(Input[i]), " Token check succeeded" >>
        /\ Is4xx5xx(o) =>
              /\ e[1] = "[fail] account: "
              /\ \E k \in 4 .. Len(e) : e[k] = StatusText(o.status)
        /\ o.kind = "timeout" => e = failed(<< "request timed out" >>)
        /\ o.kind = "connection" => e = failed(<< "Connection aborted." >>)
        /\ exclusive => (e[1] = "[ok] account: " => Is2xx(o))

\* C5 as stated: 2xx gives success, 4xx/5xx failure with the status in the
\* detail, a timeout "request timed out", another network fault its text, and
\* nothing but a 2xx response gives success.
C5_Classification ==
    InputIsList =>
      \A i \in DOMAIN messages : \A p \in GetsOf(i) : Classified(i, p, TRUE)

\* The part of C5 the code meets: the four listed outcomes are classified as
\* stated (without the closing "no other outcome gives success").
C5_ListedOutcomes ==
    InputIsList =>
      \A i \in DOMAIN messages : \A p \in GetsOf(i) : Classified(i, p, FALSE)

\* ------------------------------------------------------------ C6
\* C6: with TG_BOT_TOKEN or TG_CHAT_ID missing (unset or empty) no POST is ever
\* issued, send_tg_message returns normally (main ends right after its one
\* call, on the normal and on the error path) and no exception leaves main().
C6_NoCredentialsNoPost ==
    ~CredentialsPresent =>
       /\ Positions("POST") = {}
       /\ escaped = FALSE
       /\ Len(calls) <= 1
       /\ calls # <<>> => Done

C6_Witness ==
    /\ Done
    /\ tg_bot_token = << "bot" >>
    /\ tg_chat_id = <<>>
    /\ Len(calls) = 1 /\ IsSummary(calls[1])
    /\ ~NoGets

\* ------------------------------------------------------------ C7
HasNonBlank(a) == \E k \in DOMAIN TokenText(a) : TokenText(a)[k] \notin WhitespaceChars
EarlierChecksAnswered(i) ==
    \A p \in Positions("GET") : trace[p].acct < i => RequestOutcome(trace[p].outcome)

\* C7 as stated: in a finished run over a valid list, every account whose token
\* is not the empty string has exactly one GET, whatever the outcomes
\* (response, timeout, network fault) of the earlier checks.
C7_EveryNonEmptyTokenOneGet ==
    (Done /\ ValidList) =>
       \A i \in DOMAIN Input :
          (TokenText(Input[i]) # <<>> /\ EarlierChecksAnswered(i)) =>
             Cardinality(GetsOf(i)) = 1

\* C7 amended: in a finished run over a valid list, every account whose token
\* is non-empty after stripping surrounding blanks has exactly one GET,
\* whatever the outcomes (response, timeout, network fault) of the earlier
\* checks; no account ever has more than one GET.
C7_EveryStrippedTokenOneGet ==
    /\ InputIsList => \A i \in DOMAIN Input : Cardinality(GetsOf(i)) <= 1
    /\ (Done /\ ValidList) =>
          \A i \in DOMAIN Input :
             (HasNonBlank(Input[i]) /\ EarlierChecksAnswered(i)) =>
                Cardinality(GetsOf(i)) = 1

C7_Witness ==
    /\ Done
    /\ ValidList
    /\ Len(Input) = 2
    /\ \E p \in GetsOf(1) : trace[p].outcome = TimedOut
    /\ \E p \in GetsOf(2) : trace[p].bearer = << "k" >> /\ trace[p].outcome = Response(401)

\* ------------------------------------------------------------ C8
BadPositions == { i \in DOMAIN Input : ~ValidAccount(Input[i]) }
EncodePositions == { trace[p].acct : p \in { q \in Positions("GET") : ~RequestOutcome(trace[q].outcome) } }
FirstBad == CHOOSE i \in BadPositions : \A j \in BadPositions : i <= j

\* The description of the fault the run meets, read off its inputs.
FaultDescription ==
    IF ConfigFault THEN ConfigFaultText
    ELSE IF env_accounts.value.type = "null" THEN "no valid Koyeb account information found"
    ELSE IF env_accounts.value.type = "number"
    THEN (IF env_accounts.value.n = 0 THEN "no valid Koyeb account information found"
          ELSE "'int' object is not iterable")
    ELSE IF Input = <<>> THEN "no valid Koyeb account information found"
    ELSE IF EncodePositions # {} THEN "'latin-1' codec can't encode characters"
    ELSE IF ~IsObject(Input[FirstBad]) THEN "'str' object has no attribute 'get'"
    ELSE "'NoneType' object has no attribute 'strip'"

\* A fault is met: by the loading, or in the loop (a malformed element, or a
\* check that raises what the checker does not catch).
FaultMet == ~ValidList \/ EncodePositions # {}

\* C8: when a fault is met, no account after the faulting position is ever
\* checked, and the only message main() sends is the error line embedding the
\* fault's description: it shows none of the results collected so far, and a
\* POST carries that line.
C8_FaultAbortsAndReportsError ==
    /\ (InputIsList /\ BadPositions # {}) =>
          \A p \in Positions("GET") : trace[p].acct < FirstBad
    /\ InputIsList =>
          \A q \in EncodePositions : \A p \in Positions("GET") : trace[p].acct <= q
    /\ FaultMet =>
          /\ ~InputIsList => NoGets
          /\ Len(calls) <= 1
          /\ \A c \in DOMAIN calls :
                /\ calls[c] = << "[error] script failed: ", FaultDescription >>
                /\ EntryHeads(calls[c]) = <<>>
          /\ \A p \in Positions("POST") : calls # <<>> /\ trace[p].text = calls[1]
    /\ (Done /\ (InputIsList => BadPositions # {} \/ Input = <<>>)) => Len(calls) = 1

C8_Witness ==
    /\ Done
    /\ Len(Input) = 3
    /\ BadPositions = { 2 }
    /\ Input[3].token = << TStr(<< "k" >>) >>
    /\ Len(messages) = 1 /\ messages[1][1] = "[ok] account: "
    /\ \E p \in Positions("POST") :
          trace[p].text = << "[error] script failed: ", "'str' object has no attribute 'get'" >>

\* ------------------------------------------------------------ C9
DeliveryFailed(o) == Is4xx5xx(o) \/ o.kind \in { "timeout", "connection" }

\* C9 as stated: a POST that fails (error status, timeout, network fault) is
\* not raised again: main() has ended after its single call, no second POST
\* exists, no exception ever leaves main() whatever the checks and the
\* delivery meet, and a run that has not ended can go on.
C9_DeliveryFailureSwallowed ==
    /\ escaped = FALSE
    /\ Cardinality(Positions("POST")) <= 1
    /\ \A p \in Positions("POST") :
          DeliveryFailed(trace[p].outcome) => (Done /\ Len(calls) = 1)
    /\ ~Done => ENABLED Next

\* The part of C9 the code meets: a POST that ends in an error status, a
\* timeout or a network fault is the last thing the run does, and the call
\* that made it returned normally.
C9_RequestFailuresSwallowed ==
    \A p \in Positions("POST") :
       DeliveryFailed(trace[p].outcome) => (Done /\ p = Len(trace) /\ escaped = FALSE)

\* ------------------------------------------------------------ C10
Successive(p, q) ==
    /\ p \in Positions("GET") /\ q \in Positions("GET") /\ p < q
    /\ \A r \in (p + 1) .. (q - 1) : trace[r].op # "GET"

\* C10: between any two successive GETs of a run there is exactly one pause,
\* of 5 time units, whether the earlier check succeeded or failed and whether
\* or not skipped accounts lie between the two checked accounts.
C10_FixedPauseBetweenChecks ==
    \A p \in DOMAIN trace : \A q \in DOMAIN trace :
       Successive(p, q) =>
          /\ Cardinality({ r \in (p + 1) .. (q - 1) : trace[r].op = "SLEEP" }) = 1
          /\ \A r \in (p + 1) .. (q - 1) : trace[r].op = "SLEEP" => trace[r].secs = 5

C10_Witness ==
    /\ Done
    /\ Len(Input) = 3
    /\ GetsOf(1) # {} /\ GetsOf(2) = {} /\ GetsOf(3) # {}
    /\ \E p \in GetsOf(1) : trace[p].outcome = Response(401)
    /\ Len(messages) = 3 /\ messages[2][1] = "[warn] account: "

====
